---- MODULE Spec2Model ----
(***************************************************************************)
(* The scikit-learn pipeline notebook (src/sklearn-pipelines.ipynb) as a   *)
(* state machine: the three scripts the notebook writes                    *)
(* (sklearn_pipeline.py, preprocessing.py, training.py), the files they    *)
(* exchange and the two inference hand-off functions model_fn/predict_fn.  *)
(*                                                                         *)
(* Numbers are fixed point: a cell value v stands for v / Resolution, and  *)
(* every division rounds down, as a stand-in for floating point rounding.  *)
(* Labels (column y) are plain integers and are never scaled.              *)
(***************************************************************************)
EXTENDS Integers, Sequences, FiniteSets, TLC

\* ------------------------------------------------------------------ bounds
\* Rows of data.csv: MaxRows where every operation may be repeated in any
\* order, MaxRowsLarge where fewer operations are in play.
MaxRows == 3
MaxRowsLarge == 5
MaxSplits == 1
Resolution == 4

\* make_classification's default n_samples: the rows of the dataset the
\* notebook generates.
NSamples == 100

\* Raw feature values (before fixed-point scaling) and class labels of the
\* generated datasets.
RawValues == {1, 2}
Labels == {0, 1}
FeatureValues == {Resolution * v : v \in RawValues}

\* ------------------------------------------------------------ sequences
Range(s) == {s[i] : i \in 1..Len(s)}

\* The sum of a sequence, by halves (numpy adds pairwise).
RECURSIVE SumSeq(_)
SumSeq(s) ==
    IF Len(s) = 0 THEN 0
    ELSE IF Len(s) = 1 THEN s[1]
    ELSE LET h == Len(s) \div 2
         IN SumSeq(SubSeq(s, 1, h)) + SumSeq(SubSeq(s, h + 1, Len(s)))

IndexOf(s, e) == CHOOSE i \in 1..Len(s) : s[i] = e

\* s without its i-th element
Without(s, i) == [j \in 1..(Len(s) - 1) |-> IF j < i THEN s[j] ELSE s[j + 1]]

Isqrt(v) == CHOOSE r \in 0..v : r * r <= v /\ (r + 1) * (r + 1) > v

\* ceil(a / b) for b > 0
CeilDiv(a, b) == (a + b - 1) \div b

\* ------------------------------------------------------------ file system
\* A path is the sequence of its components; os.path.join concatenates.
Join(dir, name) == dir \o name

TmpDir == <<"tmp">>
CwdDir == <<>>
TempDir == <<"temp">>

DataCsv == Join(TmpDir, <<"data.csv">>)
RawTrainCsv == Join(TmpDir, <<"train.csv">>)
RawTestCsv == Join(TmpDir, <<"test.csv">>)
\* The three names preprocessing.py joins onto --outputpath.
TrainOutput == <<"train", "train.csv">>
TestOutput == <<"test", "test.csv">>
PipelineOutput == <<"pipeline", "preproc-pipeline.joblib">>

TrainCsv == Join(TempDir, TrainOutput)
TestCsv == Join(TempDir, TestOutput)
PreprocJoblib == Join(TempDir, PipelineOutput)
ModelJoblib == Join(TempDir, <<"model.joblib">>)
ModelDirPreproc == Join(TempDir, <<"preproc.joblib">>)
PipelineJoblib == Join(CwdDir, <<"pipeline.joblib">>)

\* training.py's defaults for --train-file, --test-file and --pipeline-file.
train_file == <<"train.csv">>
test_file == <<"test.csv">>
\* The name the transform has in the model directory, taken for its name in
\* the pipeline directory.
pipeline_file_preproc == <<"preproc.joblib">>

pipeline_file == <<"preproc-pipeline.joblib">>

\* The local test's --train, --test and --pipeline directories.
LocalTrainDir == Join(TempDir, <<"train">>)
LocalTestDir == Join(TempDir, <<"test">>)
LocalPipelineDir == Join(TempDir, <<"pipeline">>)

\* The three files training.py reads in the local test.
TrainInputCsv == Join(LocalTrainDir, train_file)
TestInputCsv == Join(LocalTestDir, test_file)
PipelineInput == Join(LocalPipelineDir, pipeline_file)

Paths ==
    {DataCsv, RawTrainCsv, RawTestCsv, TrainCsv, TestCsv, PreprocJoblib,
     ModelJoblib, ModelDirPreproc, PipelineJoblib}

NoFile == [kind |-> "absent"]
None == [type |-> "None"]

Exists(files, p) == p \in DOMAIN files /\ files[p].kind # "absent"

\* ------------------------------------------------------------- pandas
\* A DataFrame: column names, index labels (0-based), and one tuple per row.
DataFrame(columns, index, rows) ==
    [columns |-> columns, index |-> index, rows |-> rows]

RangeIndex(n) == [i \in 1..n |-> i - 1]

\* DataFrame.to_csv(path, index=False): the header and the rows; the index
\* labels are not written.
to_csv(df) == [kind |-> "csv", header |-> df.columns, lines |-> df.rows]

\* pd.read_csv(path): the rows under a fresh RangeIndex.
read_csv(file) == DataFrame(file.header, RangeIndex(Len(file.lines)), file.lines)

HasColumn(df, c) == c \in Range(df.columns)

\* df.drop(c, axis=1)
drop(df, c) ==
    LET k == IndexOf(df.columns, c)
    IN DataFrame(Without(df.columns, k), df.index,
                 [i \in 1..Len(df.rows) |-> Without(df.rows[i], k)])

\* df.y as a sequence of values (index-aligned with df.rows)
ColumnValues(df, c) ==
    LET k == IndexOf(df.columns, c)
    IN [i \in 1..Len(df.rows) |-> df.rows[i][k]]

\* pd.concat([pd.DataFrame(transformed), y], axis=1): the transformed array gets
\* columns "0".."k-1" and a RangeIndex, y is aligned on the index labels.
concat_y(transformed, index, y) ==
    LET k == IF transformed = <<>> THEN 0 ELSE Len(transformed[1])
        names == <<"0", "1", "2", "3">>
    IN DataFrame([c \in 1..k |-> names[c]] \o <<"y">>,
                 RangeIndex(Len(transformed)),
                 [i \in 1..Len(transformed) |->
                     transformed[i] \o <<y[IndexOf(index, i - 1)]>>])

\* df.iloc[positions]: rows by (1-based) position, index labels kept.
iloc(df, positions) ==
    DataFrame(df.columns,
              [j \in 1..Len(positions) |-> df.index[positions[j]]],
              [j \in 1..Len(positions) |-> df.rows[positions[j]]])

\* ----------------------------------------------------- train_test_split
\* numpy RandomState(seed).permutation(n) for the two seeds of the notebook,
\* as positions 1..n (MT19937 seeded by init_genrand, Fisher-Yates shuffle).
Permutation42 ==
    << <<1>>, <<2, 1>>, <<1, 2, 3>>, <<2, 4, 1, 3>>, <<2, 5, 3, 1, 4>>,
       <<1, 2, 6, 3, 5, 4>>, <<1, 2, 6, 3, 5, 4, 7>>,
       <<2, 6, 1, 8, 3, 5, 4, 7>> >>

Permutation0 ==
    << <<1>>, <<2, 1>>, <<3, 2, 1>>, <<3, 4, 2, 1>>, <<3, 1, 2, 4, 5>>,
       <<6, 3, 2, 4, 1, 5>>, <<7, 3, 2, 4, 1, 6, 5>>,
       <<7, 3, 2, 8, 4, 1, 6, 5>> >>

\* RandomState(seed).permutation(100), for the generated dataset.
Permutation42_100 ==
    <<84, 54, 71, 46, 45, 40, 23, 81, 11, 1, 19, 31, 74, 34, 91, 5, 77, 78,
      13, 32, 56, 89, 27, 43, 70, 16, 41, 97, 10, 73, 12, 48, 86, 29, 94, 6,
      67, 66, 36, 17, 50, 35, 8, 96, 28, 20, 82, 26, 63, 14, 25, 4, 18, 39, 9,
      79, 7, 65, 37, 90, 57, 100, 55, 44, 51, 68, 47, 69, 62, 98, 80, 42, 59,
      49, 99, 58, 76, 33, 95, 60, 64, 85, 38, 30, 2, 53, 22, 3, 24, 88, 92,
      75, 87, 83, 21, 61, 72, 15, 93, 52>>

Permutation0_100 ==
    <<27, 87, 3, 56, 76, 94, 17, 74, 55, 96, 54, 93, 79, 14, 8, 31, 23, 25,
      34, 9, 44, 63, 4, 72, 46, 49, 7, 100, 83, 77, 61, 81, 91, 69, 52, 28,
      19, 57, 64, 75, 2, 62, 43, 42, 5, 16, 18, 41, 39, 6, 92, 60, 1, 35, 29,
      51, 12, 36, 24, 53, 11, 32, 67, 58, 80, 86, 33, 85, 15, 90, 20, 30, 50,
      98, 99, 70, 21, 95, 73, 78, 26, 38, 82, 47, 40, 66, 59, 13, 89, 71, 88,
      37, 22, 84, 10, 97, 68, 65, 48, 45>>

\* The permutations rng.permutation(n) can return for random_state = seed.
rng_permutation(n, seed) ==
    IF seed = 42
    THEN {IF n = NSamples THEN Permutation42_100 ELSE Permutation42[n]}
    ELSE {IF n = NSamples THEN Permutation0_100 ELSE Permutation0[n]}

\* _validate_shuffle_split with test_size=None, train_size=None: test_size
\* defaults to 0.25, n_test = ceil(0.25 * n), n_train = n - n_test.
\* test_size = 0.2 instead of the default.
NTestFifth(n) == CeilDiv(n, 5)

NTest(n) == CeilDiv(n, 4)
NTrain(n) == n - NTest(n)

\* ValueError: no samples, or the resulting train set would be empty.
SplitFails(n) == n = 0 \/ NTrain(n) = 0

\* ShuffleSplit: the first n_test positions of the permutation are the test
\* set, the next n_train the train set.
TestPositions(perm, n) == SubSeq(perm, 1, NTest(n))
\* An off-by-one in the slice of the train positions.
TrainPositionsOverlap(perm, n) == SubSeq(perm, NTest(n), NTest(n) + NTrain(n) - 1)

TrainPositions(perm, n) == SubSeq(perm, NTest(n) + 1, NTest(n) + NTrain(n))

\* -------------------------------------------------------------- sklearn
\* StandardScaler(): unfitted, then fitted with per-column mean_ and scale_.
StandardScaler == [type |-> "StandardScaler", fitted |-> FALSE,
                   mean_ |-> <<>>, scale_ |-> <<>>]

ColumnOf(X, c) == [i \in 1..Len(X) |-> X[i][c]]

Mean(col) == SumSeq(col) \div Len(col)

Variance(col) ==
    LET m == Mean(col)
    IN SumSeq([i \in 1..Len(col) |-> (col[i] - m) * (col[i] - m)]) \div Len(col)

\* scale_ = sqrt(var_), with a zero scale replaced by 1.0
\* (_handle_zeros_in_scale).
ScaleOf(col) ==
    LET s == Isqrt(Variance(col))
    IN IF s = 0 THEN Resolution ELSE s

\* check_array: at least one sample and one feature column.
ScalerFitFails(X) == X = <<>> \/ Len(X[1]) = 0

scaler_fit(est, X) ==
    [est EXCEPT !.fitted = TRUE,
                !.mean_ = [c \in 1..Len(X[1]) |-> Mean(ColumnOf(X, c))],
                !.scale_ = [c \in 1..Len(X[1]) |-> ScaleOf(ColumnOf(X, c))]]

\* (x - mean_) / scale_, column by column
scaler_transform(est, X) ==
    [i \in 1..Len(X) |->
        [c \in 1..Len(X[i]) |->
            (Resolution * (X[i][c] - est.mean_[c])) \div est.scale_[c]]]

\* RandomForestClassifier, fitted: the forest is modelled by one of its trees,
\* an axis-aligned tree over one feature column: sorted thresholds and one
\* class per interval (leaves has one element more than thresholds).
Tree(col, thresholds, leaves) ==
    [type |-> "RandomForestClassifier", col |-> col,
     thresholds |-> thresholds, leaves |-> leaves]

\* x goes left of a threshold t when x <= t.
tree_apply(est, x) ==
    est.leaves[1 + Cardinality({k \in 1..Len(est.thresholds) :
                                    x[est.col] > est.thresholds[k]})]

rfc_predict(est, X) == [i \in 1..Len(X) |-> tree_apply(est, X[i])]

\* Candidate thresholds of a column: the midpoints between consecutive
\* distinct values of the training rows.
Midpoints(col) ==
    LET vals == Range(col)
    IN {(a + b) \div 2 : <<a, b>> \in
            {p \in vals \X vals :
                p[1] < p[2] /\ ~\E v \in vals : p[1] < v /\ v < p[2]}}

SortedSeqs(S, maxLen) ==
    UNION {{s \in [1..n -> S] : \A i \in 1..(n - 1) : s[i] < s[i + 1]} :
              n \in 0..maxLen}

\* The training rows (positions) that fall in leaf k of a tree.
RowsInLeaf(X, c, thresholds, k) ==
    {i \in 1..Len(X) :
        1 + Cardinality({j \in 1..Len(thresholds) : X[i][c] > thresholds[j]}) = k}

\* The fitted forests RandomForestClassifier.fit(X, y) can return. No
\* random_state is given, so the bootstrap and the feature choice are free:
\* either no split (one leaf, any class of y), or splits at midpoints that
\* leave min_samples_leaf rows in every leaf, each leaf labelled with a class
\* of its rows. A node is only split when y is impure.
rfc_fit(X, y, min_samples_leaf) ==
    {Tree(1, <<>>, <<l>>) : l \in Range(y)}
    \cup
    UNION {UNION {
        {Tree(c, th, lv) :
            lv \in {f \in [1..(Len(th) + 1) -> Range(y)] :
                      \A k \in 1..(Len(th) + 1) :
                          f[k] \in {y[i] : i \in RowsInLeaf(X, c, th, k)}}} :
        th \in {t \in SortedSeqs(Midpoints(ColumnOf(X, c)), MaxSplits) :
                  /\ t # <<>>
                  /\ Cardinality(Range(y)) > 1
                  /\ \A k \in 1..(Len(t) + 1) :
                        Cardinality(RowsInLeaf(X, c, t, k)) >= min_samples_leaf}} :
        c \in 1..Len(X[1])}

\* Pipeline(steps): steps is a sequence of (name, estimator); the constructor
\* fits nothing.
Pipeline(steps) == [type |-> "Pipeline", steps |-> steps]
Step(name, est) == [name |-> name, est |-> est]

\* estimator.transform(X), by estimator type; a Pipeline applies each step.
RECURSIVE transform(_, _)
transform(est, X) ==
    IF est.type = "StandardScaler" THEN scaler_transform(est, X)
    ELSE IF est.type = "Pipeline" THEN
        IF est.steps = <<>> THEN X
        ELSE transform(Pipeline(Tail(est.steps)),
                       transform(Head(est.steps).est, X))
    ELSE X

\* Pipeline.fit_transform(X) of an all-transformer pipeline: each step is
\* fitted on the output of the steps before it. Returns the fitted pipeline.
RECURSIVE fit_steps(_, _)
fit_steps(steps, X) ==
    IF steps = <<>> THEN <<>>
    ELSE LET fittedEst == scaler_fit(Head(steps).est, X)
         IN <<Step(Head(steps).name, fittedEst)>>
            \o fit_steps(Tail(steps), scaler_transform(fittedEst, X))

pipeline_fit(pipe, X) == Pipeline(fit_steps(pipe.steps, X))

\* Pipeline.predict that hands X to the final estimator as it is.
final_input_raw(est, X) == X

\* Pipeline.predict that passes X through the first step twice.
final_input_twice(est, X) ==
    IF est.type = "Pipeline" /\ Len(est.steps) > 1
    THEN transform(Head(est.steps).est, transform(Head(est.steps).est, X))
    ELSE X

\* The rows handed to the final estimator of a pipeline by Pipeline.predict:
\* X passed through every step but the last.
RECURSIVE final_input(_, _)
final_input(est, X) ==
    IF est.type = "Pipeline" /\ Len(est.steps) > 1
    THEN final_input(Pipeline(Tail(est.steps)), transform(Head(est.steps).est, X))
    ELSE X

FinalEstimator(est) ==
    IF est.type = "Pipeline" THEN est.steps[Len(est.steps)].est ELSE est

\* estimator.predict(X)
predict(est, X) == rfc_predict(FinalEstimator(est), final_input(est, X))

\* accuracy_score(y_true, y_pred): the fraction of positions that agree, kept
\* as numerator and denominator.
accuracy_score(y_true, y_pred) ==
    [num |-> Cardinality({i \in 1..Len(y_true) : y_true[i] = y_pred[i]}),
     den |-> Len(y_true)]

\* joblib.dump(obj, path) / joblib.load(path)
dump(obj) == [kind |-> "joblib", obj |-> obj]
load(file) == file.obj

\* ------------------------------------------------------------------ state
VARIABLES
    fs,     \* the files: path -> file (NoFile when absent)
    pre,    \* the preprocessing.py process: pc, its locals, what it wrote
    trn,    \* the training.py process: pc, the fitted model, its evaluation
    mono,   \* the sklearn_pipeline.py process
    s3,     \* the objects under s3://bucket/prefix/: key -> object
    nb,     \* the notebook's own variables (data_path, train_path, ...), the
            \* SageMaker cells it has run and what their jobs read and wrote
    out     \* the output of the latest inference cell: the unit model_fn
            \* returned (the notebook's `pipe`), the rows sent to predict_fn,
            \* what reached the final estimator, and the labels returned

vars == <<fs, pre, trn, mono, s3, nb, out>>

NoFrame == DataFrame(<<>>, <<>>, <<>>)
NoOut == [unit |-> None, input |-> <<>>, seen |-> <<>>, labels |-> <<>>]

Terminal == {"idle", "done", "failed"}

\* The notebook runs one cell at a time: a script runs to its end (or its
\* failure) before anything else starts.
Idle == pre.pc \in Terminal /\ trn.pc \in Terminal /\ mono.pc \in Terminal

\* --min-samples-leaf: the default (3), and the smallest value sklearn accepts.
MinSamplesLeafArgs == {1, 3}

\* ------------------------------------------------------- notebook, Step 0
\* The dataset data.csv holds: n rows of feature values and a label.
Datasets(maxRows) ==
    UNION {[1..n -> {<<x, y>> : x \in FeatureValues, y \in Labels}] :
              n \in 0..maxRows}

\* A dataset of the user's own without the label column.
UnlabelledDatasets ==
    UNION {[1..n -> {<<x>> : x \in FeatureValues}] : n \in 1..2}

\* Step 0: data.csv, and the raw train/test split (random_state=0) that Level 1
\* trains on.
Step0Files(rows) ==
    LET n == Len(rows)
        data == DataFrame(<<"0", "y">>, RangeIndex(n), rows)
        perm == CHOOSE q \in rng_permutation(n, 0) : TRUE
    IN [p \in Paths |->
          IF p = DataCsv THEN to_csv(data)
          ELSE IF p = RawTrainCsv /\ ~SplitFails(n)
               THEN to_csv(iloc(data, TrainPositions(perm, n)))
          ELSE IF p = RawTestCsv /\ ~SplitFails(n)
               THEN to_csv(iloc(data, TestPositions(perm, n)))
          ELSE NoFile]

OwnFiles(rows) ==
    [p \in Paths |->
        IF p = DataCsv
        THEN to_csv(DataFrame(<<"0">>, RangeIndex(Len(rows)), rows))
        ELSE NoFile]

InitFiles(maxRows) ==
    {Step0Files(rows) : rows \in Datasets(maxRows)}
    \cup {OwnFiles(rows) : rows \in UnlabelledDatasets}
    \cup {[p \in Paths |-> NoFile]}

\* X, y = make_classification(random_state=42): NSamples rows, about half of
\* them of each class; the feature column takes two values.
GeneratedDatasets ==
    {[i \in 1..NSamples |->
         <<IF i % 2 = 0 THEN a ELSE b, IF i <= k THEN 0 ELSE 1>>] :
        a \in FeatureValues, b \in FeatureValues, k \in 45..55}

\* ---------------------------------------------------------------------- S3
\* An object key under s3://bucket/prefix/ is the sequence of its components.
SourcePrefix == <<"source">>
TrainPrefix == <<"train">>
TestPrefix == <<"test">>
PipelinePrefix == <<"pipeline">>

FileNames ==
    {<<"data.csv">>, <<"train.csv">>, <<"test.csv">>,
     <<"preproc-pipeline.joblib">>, <<"model.joblib">>, <<"preproc.joblib">>,
     <<"pipeline.joblib">>}

Keys ==
    {Join(d, f) : d \in {SourcePrefix, TrainPrefix, TestPrefix, PipelinePrefix},
                  f \in FileNames}

NoObjects == [k \in Keys |-> NoFile]

IsPrefix(d, p) == Len(d) <= Len(p) /\ SubSeq(p, 1, Len(d)) = d
Basename(p) == <<p[Len(p)]>>

\* An object: the bytes of a file, and the cell or job that put it.
Object(file, by) == [kind |-> "object", body |-> file, by |-> by]

\* session.upload_data(path, key_prefix=...): the file goes to
\* key_prefix/basename(path); the call returns that URI.
upload_data(objects, files, path, key_prefix, by) ==
    [k \in Keys |->
        IF k = Join(key_prefix, Basename(path))
        THEN Object(files[path], by) ELSE objects[k]]

uploaded_uri(path, key_prefix) == Join(key_prefix, Basename(path))

\* Step 0 raises at line 55 (train_test_split) before anything is uploaded
\* when the split fails, and the user's own files are not uploaded at all.
Step0Completed(files) ==
    Exists(files, DataCsv) /\ Exists(files, RawTrainCsv) /\ Exists(files, RawTestCsv)

\* Lines 62-64: the three uploads of Step 0.
Step0Objects(files) ==
    IF ~Step0Completed(files) THEN NoObjects
    ELSE upload_data(
            upload_data(
               upload_data(NoObjects, files, DataCsv, SourcePrefix, "Step 0"),
               files, RawTrainCsv, TrainPrefix, "Step 0"),
            files, RawTestCsv, TestPrefix, "Step 0")

\* A path variable of the notebook that no cell has assigned yet.
Unassigned == <<>>

\* The notebook's variables after Step 0, before any SageMaker cell has run.
Step0Notebook(files) ==
    [ran |-> <<>>,
     data_path |-> IF Step0Completed(files)
                   THEN uploaded_uri(DataCsv, SourcePrefix) ELSE Unassigned,
     train_path |-> IF Step0Completed(files)
                    THEN uploaded_uri(RawTrainCsv, TrainPrefix) ELSE Unassigned,
     test_path |-> IF Step0Completed(files)
                   THEN uploaded_uri(RawTestCsv, TestPrefix) ELSE Unassigned,
     pipeline_path |-> Unassigned,
     processing |-> None,
     sklearn_estimator |-> None]

InitPre == [pc |-> "idle", tries |-> 0, written |-> {},
            train |-> NoFrame, test |-> NoFrame, pipe |-> None]
InitTrn == [pc |-> "idle", model |-> None, X_test |-> <<>>, y_test |-> <<>>,
            y_pred |-> <<>>, accuracy |-> None]
InitMono == [pc |-> "idle", pipe |-> None, X_train |-> <<>>, y_test |-> <<>>,
             y_pred |-> <<>>, accuracy |-> None, written |-> {}]

InitWith(maxRows) ==
    /\ fs \in InitFiles(maxRows)
    /\ pre = InitPre
    /\ trn = InitTrn
    /\ mono = InitMono
    /\ s3 = Step0Objects(fs)
    /\ nb = Step0Notebook(fs)
    /\ out = NoOut

Init == InitWith(MaxRows)
InitLarge == InitWith(MaxRowsLarge)

\* After Step 0 as the notebook runs it: the generated dataset.
InitGenerated ==
    /\ fs \in {Step0Files(rows) : rows \in GeneratedDatasets}
    /\ pre = InitPre
    /\ trn = InitTrn
    /\ mono = InitMono
    /\ s3 = Step0Objects(fs)
    /\ nb = Step0Notebook(fs)
    /\ out = NoOut

\* --------------------------------------------------------- preprocessing.py
\* read_csv tried a second time when the file is not there.
PreReadRetry(files) ==
    [ok |-> Exists(files, DataCsv),
     tries |-> IF Exists(files, DataCsv) THEN 1 ELSE 2,
     df |-> IF Exists(files, DataCsv) THEN read_csv(files[DataCsv]) ELSE NoFrame]

\* pd.read_csv(os.path.join(args.filepath, args.filename)): one attempt.
PreRead(files) ==
    [ok |-> Exists(files, DataCsv), tries |-> 1,
     df |-> IF Exists(files, DataCsv) THEN read_csv(files[DataCsv]) ELSE NoFrame]

\* Why lines 368-375 raise, or "ok".
PreError(read) ==
    IF ~read.ok THEN "FileNotFoundError"
    ELSE IF ~HasColumn(read.df, "y") THEN "KeyError"
    ELSE IF ScalerFitFails(drop(read.df, "y").rows) THEN "ValueError"
    ELSE IF SplitFails(Len(read.df.rows)) THEN "ValueError"
    ELSE "ok"

\* pipe = Pipeline([("scaler", StandardScaler())]), fitted on X.
PreFittedPipe(df) ==
    pipeline_fit(Pipeline(<<Step("scaler", StandardScaler)>>), drop(df, "y").rows)

\* The transform fitted on, and applied to, the whole table, y included.
PreOutputScaledY(df) ==
    LET scaler == scaler_fit(StandardScaler, df.rows)
    IN DataFrame(df.columns, RangeIndex(Len(df.rows)),
                 scaler_transform(scaler, df.rows))

\* output = pd.concat([pd.DataFrame(pipe.fit_transform(X)), y], axis=1)
PreOutput(df) ==
    concat_y(transform(PreFittedPipe(df), drop(df, "y").rows),
             df.index, ColumnValues(df, "y"))

\* train_test_split whose random_state is not fixed: the seed differs from
\* run to run (here, 42 or 0).
PreSplitSeedVaries(n) == rng_permutation(n, 42) \cup rng_permutation(n, 0)

\* The permutations train_test_split(output, random_state=42) can draw.
PreSplitPermutations(n) == rng_permutation(n, 42)

\* The dumped pipeline fitted again, on the train partition only.
PreDumpedRefit(p) ==
    dump(pipeline_fit(Pipeline(<<Step("scaler", StandardScaler)>>),
                      drop(p.train, "y").rows))

\* The object line 379 dumps.
PreDumped(p) == dump(p.pipe)

\* Lines 364-375: read, fit and apply the transform, re-attach y, split.
PreLoadFitSplit ==
    /\ Idle
    /\ LET read == PreRead(fs)
           n == Len(read.df.rows)
       IN IF PreError(read) # "ok"
          THEN pre' = [InitPre EXCEPT !.pc = "failed", !.tries = read.tries]
          ELSE \E perm \in PreSplitPermutations(n) :
                  pre' = [pc |-> "write_train", tries |-> read.tries,
                          written |-> {},
                          train |-> iloc(PreOutput(read.df), TrainPositions(perm, n)),
                          test |-> iloc(PreOutput(read.df), TestPositions(perm, n)),
                          pipe |-> PreFittedPipe(read.df)]
    /\ out' = NoOut
    /\ UNCHANGED <<fs, trn, mono, s3, nb>>

\* The pipeline dumped first, before the tables are written.
PreWriteTrainDumpFirst ==
    /\ pre.pc = "write_train"
    /\ fs' = [fs EXCEPT ![PreprocJoblib] = PreDumped(pre)]
    /\ pre' = [pre EXCEPT !.pc = "write_test", !.written = @ \cup {PreprocJoblib}]
    /\ UNCHANGED <<trn, mono, out, s3, nb>>

\* Line 376
PreWriteTrain ==
    /\ pre.pc = "write_train"
    /\ fs' = [fs EXCEPT ![TrainCsv] = to_csv(pre.train)]
    /\ pre' = [pre EXCEPT !.pc = "write_test", !.written = @ \cup {TrainCsv}]
    /\ UNCHANGED <<trn, mono, out, s3, nb>>

\* Line 377
PreWriteTest ==
    /\ pre.pc = "write_test"
    /\ fs' = [fs EXCEPT ![TestCsv] = to_csv(pre.test)]
    /\ pre' = [pre EXCEPT !.pc = "dump", !.written = @ \cup {TestCsv}]
    /\ UNCHANGED <<trn, mono, out, s3, nb>>

\* Line 379
PreDump ==
    /\ pre.pc = "dump"
    /\ fs' = [fs EXCEPT ![PreprocJoblib] = PreDumped(pre)]
    /\ pre' = [pre EXCEPT !.pc = "done", !.written = @ \cup {PreprocJoblib}]
    /\ UNCHANGED <<trn, mono, out, s3, nb>>

\* ------------------------------------------------------------- training.py
\* model_fn as in Level 1: the classifier alone.
model_fn_model_only(files, model_dir) ==
    Pipeline(<<Step("model", load(files[Join(model_dir, <<"model.joblib">>)]))>>)

\* inference function: the unit is built from the two files of model_dir.
model_fn(files, model_dir) ==
    LET preproc == load(files[Join(model_dir, <<"preproc.joblib">>)])
        model == load(files[Join(model_dir, <<"model.joblib">>)])
    IN Pipeline(<<Step("preproc", preproc), Step("model", model)>>)

ModelFnFails(files, model_dir) ==
    \/ ~Exists(files, Join(model_dir, <<"preproc.joblib">>))
    \/ ~Exists(files, Join(model_dir, <<"model.joblib">>))

\* prediction = model.predict(input_data); return np.array(prediction)
predict_fn(input_data, model) == predict(model, input_data)

\* shutil.copy(src, dst): the bytes of src.
copy(files, src) == files[src]

\* The transform fitted again on the train table instead of copied.
TrainCopiedRefit(files) ==
    dump(pipeline_fit(Pipeline(<<Step("scaler", StandardScaler)>>),
                      drop(read_csv(files[TrainCsv]), "y").rows))

\* The copy left out.
TrainCopiedNothing(files) == NoFile

\* What line 455 writes to model_dir/preproc.joblib.
TrainCopied(files) == copy(files, PipelineInput)

\* accuracy_score(..., normalize=False): the count, not the fraction.
TrainAccuracyCount(y_test, y_pred) ==
    [num |-> accuracy_score(y_test, y_pred).num, den |-> 1]

\* accuracy_score(y_test, model.predict(X_test)), line 453
TrainAccuracy(y_test, y_pred) == accuracy_score(y_test, y_pred)

\* Lines 436-453: read the two tables, fit the classifier, evaluate it.
TrainFitEvaluate ==
    /\ Idle
    /\ IF ~Exists(fs, TrainInputCsv) \/ ~Exists(fs, TestInputCsv)
       THEN trn' = [InitTrn EXCEPT !.pc = "failed"]
       ELSE LET train_df == read_csv(fs[TrainInputCsv])
                test_df == read_csv(fs[TestInputCsv])
                X_train == drop(train_df, "y").rows
                y_train == ColumnValues(train_df, "y")
                X_test == drop(test_df, "y").rows
                y_test == ColumnValues(test_df, "y")
            IN \E msl \in MinSamplesLeafArgs :
               \E model \in rfc_fit(X_train, y_train, msl) :
                  trn' = [pc |-> "dump_model", model |-> model,
                          X_test |-> X_test, y_test |-> y_test,
                          y_pred |-> predict(model, X_test),
                          accuracy |-> TrainAccuracy(y_test, predict(model, X_test))]
    /\ out' = NoOut
    /\ UNCHANGED <<fs, pre, mono, s3, nb>>

\* Line 454
TrainDumpModel ==
    /\ trn.pc = "dump_model"
    /\ fs' = [fs EXCEPT ![ModelJoblib] = dump(trn.model)]
    /\ trn' = [trn EXCEPT !.pc = "copy"]
    /\ UNCHANGED <<pre, mono, out, s3, nb>>

\* Lines 455-458
TrainCopy ==
    /\ trn.pc = "copy"
    /\ IF Exists(fs, PipelineInput)
       THEN /\ fs' = [fs EXCEPT ![ModelDirPreproc] = TrainCopied(fs)]
            /\ trn' = [trn EXCEPT !.pc = "done"]
       ELSE /\ fs' = fs
            /\ trn' = [InitTrn EXCEPT !.pc = "failed"]
    /\ UNCHANGED <<pre, mono, out, s3, nb>>

\* The rows a caller may send: raw feature rows of data.csv (X[0] in the
\* notebook) and feature rows of the transformed test table.
FeatureRows(files, p) ==
    IF Exists(files, p) /\ HasColumn(read_csv(files[p]), "y")
    THEN Range(drop(read_csv(files[p]), "y").rows)
    ELSE {}

BatchSizes == {1, 2}

Batches(files) ==
    UNION {[1..n -> FeatureRows(files, DataCsv) \cup FeatureRows(files, TestCsv)] :
              n \in BatchSizes}

\* [X[0]], the batch the notebook's own inference cells send (lines 199, 506):
\* the first raw row of the dataset.
NotebookBatch(files) == <<drop(read_csv(files[DataCsv]), "y").rows[1]>>

\* Lines 503-506, one notebook cell: pipe = model_fn("./temp/"), then
\* predict_fn(rows, pipe). Nothing is assigned when model_fn raises.
Inference ==
    /\ Idle
    /\ ~ModelFnFails(fs, TempDir)
    /\ \E X \in Batches(fs) :
          LET unit == model_fn(fs, TempDir)
          IN out' = [unit |-> unit, input |-> X, seen |-> final_input(unit, X),
                     labels |-> predict_fn(X, unit)]
    /\ UNCHANGED <<fs, pre, trn, mono, s3, nb>>

\* The job is stopped while it runs (the platform's job abort): the process
\* and its locals are gone, the files it wrote stay.
AbortPreprocessing ==
    /\ pre.pc \notin Terminal
    /\ pre' = [InitPre EXCEPT !.pc = "failed", !.tries = pre.tries,
                              !.written = pre.written]
    /\ UNCHANGED <<fs, trn, mono, out, s3, nb>>

AbortTraining ==
    /\ trn.pc \notin Terminal
    /\ trn' = [InitTrn EXCEPT !.pc = "failed"]
    /\ UNCHANGED <<fs, pre, mono, out, s3, nb>>

\* ------------------------------------------------------ sklearn_pipeline.py
\* inference function of the single script: the one file of model_dir.
pipeline_model_fn(files, model_dir) ==
    load(files[Join(model_dir, <<"pipeline.joblib">>)])

\* pipe.fit(X_train, y_train): the scaler is fitted on the raw rows, the
\* forest on the scaled rows; the fitted pipelines fit can return.
MonoFittedPipes(X_train, y_train, min_samples_leaf) ==
    LET scaler == scaler_fit(StandardScaler, X_train)
    IN {Pipeline(<<Step("scaler", scaler), Step("rfc", rfc)>>) :
          rfc \in rfc_fit(scaler_transform(scaler, X_train), y_train,
                          min_samples_leaf)}

\* The script stores the scaler a second time, on its own.
MonoOutputsWithScaler(m) ==
    {[path |-> PipelineJoblib, file |-> dump(m.pipe)],
     [path |-> PreprocJoblib, file |-> dump(m.pipe.steps[1].est)]}

\* What line 169 writes: dump(pipe, model_dir/pipeline.joblib).
MonoOutputs(m) == {[path |-> PipelineJoblib, file |-> dump(m.pipe)]}

\* Lines 144-167: read the raw tables, fit the pipeline, score it.
MonoFitEvaluate ==
    /\ Idle
    /\ IF ~Exists(fs, RawTrainCsv) \/ ~Exists(fs, RawTestCsv)
       THEN mono' = [InitMono EXCEPT !.pc = "failed"]
       ELSE LET train_df == read_csv(fs[RawTrainCsv])
                test_df == read_csv(fs[RawTestCsv])
                X_train == drop(train_df, "y").rows
                y_train == ColumnValues(train_df, "y")
                X_test == drop(test_df, "y").rows
                y_test == ColumnValues(test_df, "y")
            IN \E msl \in MinSamplesLeafArgs :
               \E fitted \in MonoFittedPipes(X_train, y_train, msl) :
                  mono' = [pc |-> "dump", pipe |-> fitted, X_train |-> X_train,
                           y_test |-> y_test, y_pred |-> predict(fitted, X_test),
                           accuracy |-> accuracy_score(y_test, predict(fitted, X_test)),
                           written |-> {}]
    /\ out' = NoOut
    /\ UNCHANGED <<fs, pre, trn, s3, nb>>

\* Line 169
MonoDump ==
    /\ mono.pc = "dump"
    /\ fs' = [p \in Paths |->
                IF \E o \in MonoOutputs(mono) : o.path = p
                THEN (CHOOSE o \in MonoOutputs(mono) : o.path = p).file
                ELSE fs[p]]
    /\ mono' = [mono EXCEPT !.pc = "done",
                            !.written = @ \cup {o.path : o \in MonoOutputs(mono)}]
    /\ UNCHANGED <<pre, trn, out, s3, nb>>

\* Lines 196-199, one notebook cell: pipe = model_fn("."), then
\* predict_fn(rows, pipe).
MonoBatches(files) ==
    UNION {[1..n -> FeatureRows(files, DataCsv) \cup FeatureRows(files, RawTestCsv)] :
              n \in BatchSizes}

MonoInference ==
    /\ Idle
    /\ Exists(fs, PipelineJoblib)
    /\ \E X \in MonoBatches(fs) :
          LET unit == pipeline_model_fn(fs, CwdDir)
          IN out' = [unit |-> unit, input |-> X, seen |-> final_input(unit, X),
                     labels |-> predict_fn(X, unit)]
    /\ UNCHANGED <<fs, pre, trn, mono, s3, nb>>

AbortMono ==
    /\ mono.pc \notin Terminal
    /\ mono' = [InitMono EXCEPT !.pc = "failed", !.written = mono.written]
    /\ UNCHANGED <<fs, pre, trn, out, s3, nb>>

\* ------------------------------------------------------------ SageMaker jobs
\* The directories of a job's container: the processing job's input and
\* output (the scripts' defaults and the job's configuration), one directory
\* per training channel (SM_CHANNEL_<NAME>), and the model directory
\* (SM_MODEL_DIR).
ProcessingInputDir == <<"opt", "ml", "processing", "input">>
ProcessingOutputDir == <<"opt", "ml", "processing", "output">>
ChannelDir(name) == <<"opt", "ml", "input", "data", name>>
ModelDir == <<"opt", "ml", "model">>

ContainerDirs ==
    {ProcessingInputDir, ModelDir}
    \cup {Join(ProcessingOutputDir, <<d>>) : d \in {"train", "test", "pipeline"}}
    \cup {ChannelDir(c) : c \in {"train", "test", "pipeline"}}

ContainerPaths == {Join(d, f) : d \in ContainerDirs, f \in FileNames}

\* A fresh container.
EmptyContainer == [p \in ContainerPaths |-> NoFile]

\* The objects an S3 URI names: the object of that key, or the objects under
\* that prefix.
ObjectsAt(objects, uri) == {k \in Keys : Exists(objects, k) /\ IsPrefix(uri, k)}

RelativeKey(uri, k) ==
    IF k = uri THEN Basename(k) ELSE SubSeq(k, Len(uri) + 1, Len(k))

\* The platform copies the objects of an input or a channel into its
\* directory before the script starts.
download(files, objects, uri, dir) ==
    [p \in DOMAIN files |->
        IF \E k \in ObjectsAt(objects, uri) : p = Join(dir, RelativeKey(uri, k))
        THEN objects[CHOOSE k \in ObjectsAt(objects, uri) :
                        p = Join(dir, RelativeKey(uri, k))].body
        ELSE files[p]]

\* The platform uploads the files of an output directory under its
\* destination when the job has ended.
upload_dir(objects, files, dir, uri, by) ==
    [k \in Keys |->
        IF \E p \in DOMAIN files :
              Exists(files, p) /\ IsPrefix(dir, p)
              /\ k = Join(uri, SubSeq(p, Len(dir) + 1, Len(p)))
        THEN Object(files[CHOOSE p \in DOMAIN files :
                             Exists(files, p) /\ IsPrefix(dir, p)
                             /\ k = Join(uri, SubSeq(p, Len(dir) + 1, Len(p)))], by)
        ELSE objects[k]]

\* What an S3 listing of the URIs of a job's inputs or outputs shows: per
\* name, the keys found and who put each object.
Listing(objects, uris) ==
    {[name |-> c, key |-> k, by |-> objects[k].by] :
        <<c, k>> \in {q \in (DOMAIN uris) \X Keys : q[2] \in ObjectsAt(objects, uris[q[1]])}}

\* Keeping the objects: the removal left out.
s3_rm_nothing(objects, prefix) == objects

\* aws s3 rm s3://bucket/prefix/<dir>/ --recursive
s3_rm(objects, prefix) ==
    [k \in Keys |-> IF IsPrefix(prefix, k) THEN NoFile ELSE objects[k]]

\* preprocessing.py without arguments (lines 356-358).
PreArgsDefault ==
    [filepath |-> ProcessingInputDir, filename |-> <<"data.csv">>,
     outputpath |-> ProcessingOutputDir]

\* preprocessing.py run from its first to its last line over files: whether it
\* ended without an exception, and the files it leaves.
preprocessing_main(files, args) ==
    LET path == Join(args.filepath, args.filename)
        read == [ok |-> Exists(files, path), tries |-> 1,
                 df |-> IF Exists(files, path)
                        THEN read_csv(files[path]) ELSE NoFrame]
        n == Len(read.df.rows)
    IN IF PreError(read) # "ok"
       THEN {[ok |-> FALSE, files |-> files]}
       ELSE {[ok |-> TRUE,
              files |->
                [p \in DOMAIN files |->
                   IF p = Join(args.outputpath, TrainOutput)
                   THEN to_csv(iloc(PreOutput(read.df), TrainPositions(perm, n)))
                   ELSE IF p = Join(args.outputpath, TestOutput)
                   THEN to_csv(iloc(PreOutput(read.df), TestPositions(perm, n)))
                   ELSE IF p = Join(args.outputpath, PipelineOutput)
                   THEN PreDumped([pipe |-> PreFittedPipe(read.df)])
                   ELSE files[p]]] :
             perm \in PreSplitPermutations(n)}

\* The arguments of a script in a training job: the directories come from the
\* environment (a channel that was not given leaves its variable unset), the
\* file names are the defaults, min-samples-leaf is the job's hyperparameter.
JobArgs(channels) ==
    [model_dir |-> ModelDir,
     train |-> IF "train" \in channels THEN ChannelDir("train") ELSE None,
     test |-> IF "test" \in channels THEN ChannelDir("test") ELSE None,
     pipeline |-> IF "pipeline" \in channels THEN ChannelDir("pipeline") ELSE None,
     train_file |-> train_file, test_file |-> test_file,
     pipeline_file |-> pipeline_file, min_samples_leaf |-> 3]

\* Whether the script can read its train and test tables.
TablesMissing(files, args) ==
    \/ args.train = None
    \/ args.test = None
    \/ ~Exists(files, Join(args.train, args.train_file))
    \/ ~Exists(files, Join(args.test, args.test_file))

\* training.py run from its first to its last line.
training_main(files, args) ==
    IF TablesMissing(files, args) THEN {[ok |-> FALSE, files |-> files]}
    ELSE LET train_df == read_csv(files[Join(args.train, args.train_file)])
             dumped(model) ==
                [p \in DOMAIN files |->
                   IF p = Join(args.model_dir, <<"model.joblib">>)
                   THEN dump(model) ELSE files[p]]
         IN {IF args.pipeline = None
                \/ ~Exists(files, Join(args.pipeline, args.pipeline_file))
             THEN [ok |-> FALSE, files |-> dumped(model)]
             ELSE [ok |-> TRUE,
                   files |->
                     [p \in DOMAIN files |->
                        IF p = Join(args.model_dir, <<"preproc.joblib">>)
                        THEN copy(files, Join(args.pipeline, args.pipeline_file))
                        ELSE dumped(model)[p]]] :
             model \in rfc_fit(drop(train_df, "y").rows,
                               ColumnValues(train_df, "y"),
                               args.min_samples_leaf)}

\* sklearn_pipeline.py run from its first to its last line.
sklearn_pipeline_main(files, args) ==
    IF TablesMissing(files, args) THEN {[ok |-> FALSE, files |-> files]}
    ELSE LET train_df == read_csv(files[Join(args.train, args.train_file)])
         IN {[ok |-> TRUE,
              files |->
                [p \in DOMAIN files |->
                   IF p = Join(args.model_dir, <<"pipeline.joblib">>)
                   THEN dump(fitted) ELSE files[p]]] :
             fitted \in MonoFittedPipes(drop(train_df, "y").rows,
                                        ColumnValues(train_df, "y"),
                                        args.min_samples_leaf)}

\* The container of a training job when its script starts: every channel
\* downloaded into its directory.
RECURSIVE JobContainer(_, _, _)
JobContainer(objects, inputs, channels) ==
    IF channels = {} THEN EmptyContainer
    ELSE LET c == CHOOSE x \in channels : TRUE
         IN download(JobContainer(objects, inputs, channels \ {c}),
                     objects, inputs[c], ChannelDir(c))

\* model.tar.gz: the files of the model directory when the script has ended.
ModelData(files) == [f \in FileNames |-> files[Join(ModelDir, f)]]

\* sklearn_estimator after fit(inputs) with the given script.
Estimator(entry_point, objects, inputs, result) ==
    [entry_point |-> entry_point,
     channels |-> Listing(objects, inputs),
     ok |-> result.ok,
     model_data |-> ModelData(result.files)]

\* Line 251: the Level 1 estimator, fit({"train": train_path, "test":
\* test_path}) with the paths Step 0 assigned.
Level1Fit ==
    /\ Idle
    /\ nb.train_path # Unassigned /\ nb.test_path # Unassigned
    /\ LET inputs == [train |-> nb.train_path, test |-> nb.test_path]
           container == JobContainer(s3, inputs, DOMAIN inputs)
       IN \E r \in sklearn_pipeline_main(container, JobArgs(DOMAIN inputs)) :
             nb' = [nb EXCEPT
                      !.ran = Append(@, "fit"),
                      !.sklearn_estimator =
                          Estimator("sklearn_pipeline.py", s3, inputs, r)]
    /\ UNCHANGED <<fs, pre, trn, mono, s3, out>>

\* Lines 308-309
S3Remove ==
    /\ Idle
    /\ s3' = s3_rm(s3_rm(s3, TrainPrefix), TestPrefix)
    /\ nb' = [nb EXCEPT !.ran = Append(@, "rm")]
    /\ UNCHANGED <<fs, pre, trn, mono, out>>

\* Lines 546-571: the outputs of the processing job, each a directory of the
\* container and the S3 URI it is uploaded to.
ProcessingOutputs(train_path, test_path, pipeline_path) ==
    [train_data |-> [source |-> Join(ProcessingOutputDir, <<"train">>),
                     destination |-> train_path],
     test_data |-> [source |-> Join(ProcessingOutputDir, <<"test">>),
                    destination |-> test_path],
     pipeline |-> [source |-> Join(ProcessingOutputDir, <<"pipeline">>),
                   destination |-> pipeline_path]]

RECURSIVE UploadOutputs(_, _, _, _)
UploadOutputs(objects, files, outputs, names) ==
    IF names = {} THEN objects
    ELSE LET o == CHOOSE x \in names : TRUE
         IN upload_dir(UploadOutputs(objects, files, outputs, names \ {o}),
                       files, outputs[o].source, outputs[o].destination,
                       "processing")

\* Lines 533-572: the three paths are assigned, then the processing job runs
\* preprocessing.py on data_path and uploads its three output directories.
ProcessingJob ==
    /\ Idle
    /\ nb.data_path # Unassigned
    /\ LET outputs == ProcessingOutputs(TrainPrefix, TestPrefix, PipelinePrefix)
           container == download(EmptyContainer, s3, nb.data_path,
                                 ProcessingInputDir)
           destinations == [o \in DOMAIN outputs |-> outputs[o].destination]
       IN \E r \in preprocessing_main(container, PreArgsDefault) :
             /\ s3' = IF r.ok
                      THEN UploadOutputs(s3, r.files, outputs, DOMAIN outputs)
                      ELSE s3
             /\ nb' = [nb EXCEPT
                         !.ran = Append(@, "processing"),
                         !.train_path = TrainPrefix,
                         !.test_path = TestPrefix,
                         !.pipeline_path = PipelinePrefix,
                         !.processing =
                             [ok |-> r.ok,
                              found |-> Listing(s3, destinations),
                              outputs |-> Listing(s3', destinations)]]
    /\ UNCHANGED <<fs, pre, trn, mono, out>>

\* Line 616: the Level 2 estimator, fit({"train": train_path, "test":
\* test_path, "pipeline": pipeline_path}).
Level2Fit ==
    /\ Idle
    /\ nb.train_path # Unassigned /\ nb.test_path # Unassigned
    /\ nb.pipeline_path # Unassigned
    /\ LET inputs == [train |-> nb.train_path, test |-> nb.test_path,
                      pipeline |-> nb.pipeline_path]
           container == JobContainer(s3, inputs, DOMAIN inputs)
       IN \E r \in training_main(container, JobArgs(DOMAIN inputs)) :
             nb' = [nb EXCEPT
                      !.ran = Append(@, "fit"),
                      !.sklearn_estimator =
                          Estimator("training.py", s3, inputs, r)]
    /\ UNCHANGED <<fs, pre, trn, mono, s3, out>>

\* ------------------------------------------------------- specifications
\* Level 2, every cell and script of it run any number of times, in any order.
Next ==
    \/ PreLoadFitSplit
    \/ PreWriteTrain
    \/ PreWriteTest
    \/ PreDump
    \/ TrainFitEvaluate
    \/ TrainDumpModel
    \/ TrainCopy
    \/ Inference
    \/ AbortPreprocessing
    \/ AbortTraining

Spec == Init /\ [][Next]_vars

\* The preprocessing job alone, run any number of times, over larger tables.
NextPre ==
    \/ PreLoadFitSplit
    \/ PreWriteTrain
    \/ PreWriteTest
    \/ PreDump
    \/ AbortPreprocessing

SpecPre == InitLarge /\ [][NextPre]_vars

\* The preprocessing job over the dataset the notebook generates.
SpecGenerated == InitGenerated /\ [][NextPre]_vars

\* The Level 2 local test run once from top to bottom (lines 485, 494 and
\* 503-506), over larger tables.
NextRun ==
    \/ pre.pc = "idle" /\ PreLoadFitSplit
    \/ PreWriteTrain
    \/ PreWriteTest
    \/ PreDump
    \/ pre.pc # "idle" /\ trn.pc = "idle" /\ TrainFitEvaluate
    \/ TrainDumpModel
    \/ TrainCopy
    \/ trn.pc # "idle" /\ out = NoOut /\ Inference

SpecRun == InitLarge /\ [][NextRun]_vars

\* Level 1: the single script and its inference cell, run any number of
\* times, in any order.
NextMono ==
    \/ MonoFitEvaluate
    \/ MonoDump
    \/ MonoInference
    \/ AbortMono

SpecMono == Init /\ [][NextMono]_vars

\* The notebook run once from top to bottom after Step 0: Level 1 (local
\* test, training job, clean-up), then Level 2 (local test, processing job,
\* training job).
NextNotebook ==
    \/ nb.ran = <<>> /\ mono.pc = "idle" /\ MonoFitEvaluate
    \/ MonoDump
    \/ /\ nb.ran = <<>> /\ mono.pc # "idle" /\ out = NoOut
       /\ MonoInference
       /\ out'.input = NotebookBatch(fs)
    \/ nb.ran = <<>> /\ out # NoOut /\ Level1Fit
    \/ nb.ran = <<"fit">> /\ S3Remove
    \/ nb.ran = <<"fit", "rm">> /\ pre.pc = "idle" /\ PreLoadFitSplit
    \/ PreWriteTrain
    \/ PreWriteTest
    \/ PreDump
    \/ pre.pc # "idle" /\ trn.pc = "idle" /\ TrainFitEvaluate
    \/ TrainDumpModel
    \/ TrainCopy
    \/ /\ trn.pc # "idle" /\ out = NoOut
       /\ Inference
       /\ out'.input = NotebookBatch(fs)
    \/ nb.ran = <<"fit", "rm">> /\ trn.pc # "idle" /\ out # NoOut /\ ProcessingJob
    \/ nb.ran = <<"fit", "rm", "processing">> /\ Level2Fit

SpecNotebook == Init /\ [][NextNotebook]_vars

\* ---------------------------------------------------------------- claims
\* The input table as data.csv holds it.
InputFrame == read_csv(fs[DataCsv])
InputValid == Exists(fs, DataCsv) /\ HasColumn(InputFrame, "y")
InputX == drop(InputFrame, "y").rows
InputY == ColumnValues(InputFrame, "y")

\* The train and test tables as the files hold them.
TrainFileX == drop(read_csv(fs[TrainCsv]), "y").rows
TestFileX == drop(read_csv(fs[TestCsv]), "y").rows
TestFileY == ColumnValues(read_csv(fs[TestCsv]), "y")

\* C1: the transform in the model directory, and the transform inside the
\* unit model_fn returned, are the transform artifact preprocessing wrote,
\* whatever train / load / predict operations have run.
C1_TransformUntouched ==
    /\ Exists(fs, ModelDirPreproc) =>
          Exists(fs, PreprocJoblib) /\ fs[ModelDirPreproc] = fs[PreprocJoblib]
    /\ out.unit # None =>
          out.unit.steps[1].est = load(fs[PreprocJoblib])

C1_Witness ==
    /\ trn.pc = "done"
    /\ out.unit # None
    /\ Len(out.labels) = 2
    /\ out.unit.steps[1].est.steps[1].est.mean_ # <<0>>

\* C2: when preprocessing is done, the train and test tables hold the n
\* input rows between them, each input row in exactly one of them, once.
C2_SplitIsPartition ==
    pre.pc = "done" =>
        LET n == Len(InputX)
            idx == pre.train.index \o pre.test.index
            lines == fs[TrainCsv].lines \o fs[TestCsv].lines
        IN /\ Len(fs[TrainCsv].lines) + Len(fs[TestCsv].lines) = n
           /\ Len(fs[TrainCsv].lines) = Len(pre.train.index)
           /\ Len(fs[TestCsv].lines) = Len(pre.test.index)
           /\ Range(pre.train.index) \cap Range(pre.test.index) = {}
           /\ Range(idx) = 0..(n - 1)
           /\ \A j \in 1..n : lines[j][Len(lines[j])] = InputY[idx[j] + 1]

C2_Witness ==
    /\ pre.pc = "done"
    /\ Len(fs[TrainCsv].lines) = 3
    /\ Len(fs[TestCsv].lines) = 2
    /\ fs[TrainCsv].lines # fs[DataCsv].lines

\* C4: the saved transform artifact, applied to the feature columns of the
\* input row a train/test row came from, gives the feature values stored in
\* that train/test row.
C4_ArtifactReproducesTables ==
    pre.pc = "done" =>
        LET artifact == load(fs[PreprocJoblib])
        IN /\ \A j \in 1..Len(TrainFileX) :
                transform(artifact, <<InputX[pre.train.index[j] + 1]>>)
                    = <<TrainFileX[j]>>
           /\ \A j \in 1..Len(TestFileX) :
                transform(artifact, <<InputX[pre.test.index[j] + 1]>>)
                    = <<TestFileX[j]>>

C4_Witness ==
    /\ pre.pc = "done"
    /\ Len(TestFileX) = 2
    /\ TestFileX[1] # TestFileX[2]
    /\ TestFileX[1] # InputX[pre.test.index[1] + 1]

\* C7: a preprocessing run over the same input rewrites a train or test table
\* an earlier run left with the same rows in the same order.
C7_RepeatedRunsAgree ==
    [][\A p \in {TrainCsv, TestCsv} : Exists(fs, p) => fs'[p] = fs[p]]_vars

\* A second run has rewritten both tables: the artifact of a completed run is
\* there, and this run has written the train and the test table.
C7_Witness ==
    /\ pre.pc = "dump"
    /\ pre.written = {TrainCsv, TestCsv}
    /\ Exists(fs, PreprocJoblib)
    /\ Len(fs[TrainCsv].lines) = 3

\* C8: with the input file missing, or without a column y, preprocessing fails
\* on its one attempt and writes none of its three outputs.
C8_InvalidInputFatal ==
    ~InputValid =>
        /\ pre.pc \in {"idle", "failed"}
        /\ pre.pc = "failed" => pre.tries = 1
        /\ pre.written = {}
        /\ \A p \in {TrainCsv, TestCsv, PreprocJoblib} : ~Exists(fs, p)

C8_Witness ==
    /\ Exists(fs, DataCsv)
    /\ ~InputValid
    /\ pre.pc = "failed"

C8_WitnessMissing ==
    /\ ~Exists(fs, DataCsv)
    /\ pre.pc = "failed"

\* The raw feature row of data.csv that became the first row of the test table.
FirstTestRowRaw == InputX[pre.test.index[1] + 1]

\* C3 as stated: the reloaded unit, given the first row of the test table
\* training read, returns the label training predicted for that row.
C3_TestTableRow ==
    (/\ pre.pc = "done"
     /\ trn.pc = "done"
     /\ out.unit # None
     /\ out.input = <<TestFileX[1]>>)
    => out.labels = <<trn.y_pred[1]>>

\* C3, amended: the reloaded unit, given the raw (untransformed) input row that
\* became the first test row, returns the label training predicted for that
\* test row.
C3_RawTestRow ==
    (/\ pre.pc = "done"
     /\ trn.pc = "done"
     /\ out.unit # None
     /\ out.input = <<FirstTestRowRaw>>)
    => out.labels = <<trn.y_pred[1]>>

C3_Witness ==
    /\ pre.pc = "done"
    /\ trn.pc = "done"
    /\ out.unit # None
    /\ out.input = <<FirstTestRowRaw>>
    /\ out.labels = <<trn.y_pred[1]>>
    /\ trn.model.thresholds # <<>>
    /\ FirstTestRowRaw # TestFileX[1]
    /\ tree_apply(trn.model, FirstTestRowRaw) # trn.y_pred[1]

\* The files of the model directory and nothing else.
ModelDirOnly ==
    [p \in Paths |-> IF p \in {ModelJoblib, ModelDirPreproc} THEN fs[p] ELSE NoFile]

\* C5: after a training run that completed, model.joblib and preproc.joblib
\* are both in the model directory, and model_fn on that directory alone
\* returns the pair (transform, classifier), in that order.
C5_ModelDirSuffices ==
    trn.pc = "done" =>
        /\ Exists(fs, ModelJoblib)
        /\ Exists(fs, ModelDirPreproc)
        /\ ~ModelFnFails(ModelDirOnly, TempDir)
        /\ model_fn(ModelDirOnly, TempDir).steps
              = <<Step("preproc", load(fs[PreprocJoblib])),
                  Step("model", trn.model)>>

C5_Witness ==
    /\ trn.pc = "done"
    /\ out.unit = model_fn(ModelDirOnly, TempDir)
    /\ out.unit.steps[2].est.thresholds # <<>>

\* C6: predict_fn hands every input row to the transform, the transformed row
\* to the classifier, and returns the classifier's label: one label per row,
\* in the order of the rows.
C6_TransformThenClassify ==
    out.unit # None =>
        LET scaler == out.unit.steps[1].est.steps[1].est
            classifier == out.unit.steps[2].est
        IN /\ Len(out.labels) = Len(out.input)
           /\ Len(out.seen) = Len(out.input)
           /\ \A i \in 1..Len(out.input) :
                /\ out.seen[i] =
                     [c \in 1..Len(out.input[i]) |->
                        (Resolution * (out.input[i][c] - scaler.mean_[c]))
                            \div scaler.scale_[c]]
                /\ out.labels[i] = tree_apply(classifier, out.seen[i])

C6_Witness ==
    /\ out.unit # None
    /\ Len(out.input) = 2
    /\ out.labels[1] # out.labels[2]
    /\ out.seen # out.input
    /\ tree_apply(out.unit.steps[2].est, out.input[1]) # out.labels[1]

\* C10: the accuracy training reports is (test rows whose predicted label is
\* the true label) / (test rows), which lies in [0, 1].
C10_AccuracyIsFraction ==
    trn.pc \in {"dump_model", "copy", "done"} =>
        /\ trn.accuracy.den = Len(TestFileY)
        /\ trn.accuracy.den > 0
        /\ trn.accuracy.num =
              Cardinality({i \in 1..Len(TestFileY) :
                              tree_apply(trn.model, TestFileX[i]) = TestFileY[i]})
        /\ 0 <= trn.accuracy.num
        /\ trn.accuracy.num <= trn.accuracy.den

C10_Witness ==
    /\ trn.pc = "done"
    /\ trn.accuracy = [num |-> 1, den |-> 2]
    /\ trn.model.thresholds # <<>>

\* The file pipeline.joblib and nothing else.
PipelineJoblibOnly ==
    [p \in Paths |-> IF p = PipelineJoblib THEN fs[p] ELSE NoFile]

\* C9: the single script writes pipeline.joblib and no other file: a pipeline
\* of a scaler fitted on the raw training rows followed by the classifier;
\* no separate transform artifact appears, and its model_fn returns what
\* pipeline.joblib alone holds.
C9_OneArtifact ==
    /\ mono.written \subseteq {PipelineJoblib}
    /\ mono.pc = "done" => mono.written = {PipelineJoblib}
    /\ \A p \in {PreprocJoblib, ModelDirPreproc, ModelJoblib, TrainCsv, TestCsv} :
          ~Exists(fs, p)
    /\ Exists(fs, PipelineJoblib) =>
          LET stored == load(fs[PipelineJoblib])
              raw == drop(read_csv(fs[RawTrainCsv]), "y").rows
          IN /\ stored.type = "Pipeline"
             /\ Len(stored.steps) = 2
             /\ stored.steps[1].est = scaler_fit(StandardScaler, raw)
             /\ stored.steps[2].est.type = "RandomForestClassifier"
    /\ out.unit # None =>
          out.unit = pipeline_model_fn(PipelineJoblibOnly, CwdDir)

C9_Witness ==
    /\ mono.pc = "done"
    /\ out.unit # None
    /\ out.unit.steps[2].est.thresholds # <<>>
    /\ out.seen # out.input

\* C11: from an input table of 100 rows, preprocessing writes a train table
\* of exactly 75 rows and a test table of exactly 25 rows.
C11_SeventyFiveTwentyFive ==
    /\ (pre.pc \notin Terminal /\ Len(InputX) = 100) =>
          Len(pre.train.rows) = 75 /\ Len(pre.test.rows) = 25
    /\ (Len(InputX) = 100 /\ Exists(fs, TrainCsv)) =>
          Len(fs[TrainCsv].lines) = 75
    /\ (Len(InputX) = 100 /\ Exists(fs, TestCsv)) =>
          Len(fs[TestCsv].lines) = 25

C11_Witness ==
    /\ pre.pc = "done"
    /\ Len(InputX) = 100
    /\ Len(fs[TrainCsv].lines) = 75
    /\ Len(fs[TestCsv].lines) = 25
    /\ fs[TestCsv].lines[1][2] = InputY[84]
    /\ fs[TestCsv].lines[1][1] # InputX[84][1]

\* The scaler a fit on the feature columns of every input row gives, and the
\* output row of input row i (1-based) under it.
AllRowsScaler == scaler_fit(StandardScaler, InputX)
OutputRowOf(i) == scaler_transform(AllRowsScaler, <<InputX[i]>>)[1] \o <<InputY[i]>>

\* C12: the transform preprocessing holds and saves is the one fitted on the
\* feature columns (y left out) of all input rows, and every row of the train
\* and test outputs is the transformed features of one input row followed by
\* that row's own, unscaled, label.
C12_FitAllThenSplit ==
    /\ pre.pc \notin {"idle", "failed"} =>
          /\ pre.pipe = Pipeline(<<Step("scaler", AllRowsScaler)>>)
          /\ Len(AllRowsScaler.mean_) = Len(InputFrame.columns) - 1
          /\ \A j \in 1..Len(pre.train.rows) :
                pre.train.rows[j] = OutputRowOf(pre.train.index[j] + 1)
          /\ \A j \in 1..Len(pre.test.rows) :
                pre.test.rows[j] = OutputRowOf(pre.test.index[j] + 1)
    /\ \A p \in {TrainCsv, TestCsv} :
          Exists(fs, p) =>
             \A j \in 1..Len(fs[p].lines) :
                \E i \in 1..Len(InputX) : fs[p].lines[j] = OutputRowOf(i)
    /\ Exists(fs, PreprocJoblib) =>
          load(fs[PreprocJoblib]) = Pipeline(<<Step("scaler", AllRowsScaler)>>)

\* A finished run whose scaler differs from the one the train rows alone
\* would give, with both labels among the train rows.
C12_Witness ==
    /\ pre.pc = "done"
    /\ Len(InputX) = 5
    /\ AllRowsScaler # scaler_fit(StandardScaler,
                                  [j \in 1..Len(pre.train.rows) |->
                                      InputX[pre.train.index[j] + 1]])
    /\ {fs[TrainCsv].lines[j][2] : j \in 1..3} = {0, 1}
    /\ fs[TestCsv].lines[1][2] = 1
    /\ fs[TestCsv].lines[1][1] # InputX[pre.test.index[1] + 1][1]

\* The three files a training job's script reads in its container when all
\* three channels are given.
JobInputs ==
    LET args == JobArgs({"train", "test", "pipeline"})
    IN [train |-> Join(args.train, args.train_file),
        test |-> Join(args.test, args.test_file),
        pipeline |-> Join(args.pipeline, args.pipeline_file)]

\* Where the object the processing job uploads from an output file is
\* downloaded to by a training job with the three channels.
Landing(output, channel, name) ==
    Join(ChannelDir(channel),
         SubSeq(Join(ProcessingOutputDir, name),
                Len(ProcessingOutputs(TrainPrefix, TestPrefix,
                                      PipelinePrefix)[output].source) + 1,
                Len(Join(ProcessingOutputDir, name))))

\* C13: the three files preprocessing writes are the three files training
\* reads: in the local test the paths coincide and a training run after a
\* finished preprocessing run finds all three; on SageMaker the processing
\* job's three outputs are uploaded to the three URIs the training job's
\* train, test and pipeline channels are given, one object each, which land on
\* the paths training.py reads with its default file names.
C13_HandOffNames ==
    /\ TrainInputCsv = TrainCsv
    /\ TestInputCsv = TestCsv
    /\ PipelineInput = PreprocJoblib
    /\ JobInputs.train = Landing("train_data", "train", TrainOutput)
    /\ JobInputs.test = Landing("test_data", "test", TestOutput)
    /\ JobInputs.pipeline = Landing("pipeline", "pipeline", PipelineOutput)
    /\ pre.pc = "done" =>
          /\ pre.written = {TrainInputCsv, TestInputCsv, PipelineInput}
          /\ trn.pc # "failed"
    /\ (nb.processing # None /\ nb.processing.ok) =>
          nb.processing.outputs =
             {[name |-> "train_data", key |-> <<"train", "train.csv">>,
               by |-> "processing"],
              [name |-> "test_data", key |-> <<"test", "test.csv">>,
               by |-> "processing"],
              [name |-> "pipeline", key |-> <<"pipeline", "preproc-pipeline.joblib">>,
               by |-> "processing"]}
    /\ (/\ nb.processing # None
        /\ nb.processing.ok
        /\ nb.sklearn_estimator # None
        /\ nb.sklearn_estimator.entry_point = "training.py") =>
          /\ nb.sklearn_estimator.ok
          /\ {<<c.name, c.key>> : c \in nb.sklearn_estimator.channels}
                = {<<"train", <<"train", "train.csv">> >>,
                   <<"test", <<"test", "test.csv">> >>,
                   <<"pipeline", <<"pipeline", "preproc-pipeline.joblib">> >>}
          /\ {c.key : c \in nb.sklearn_estimator.channels}
                = {o.key : o \in nb.processing.outputs}

C13_Witness ==
    /\ pre.pc = "done"
    /\ trn.pc = "done"
    /\ nb.ran = <<"fit", "rm", "processing", "fit">>
    /\ nb.processing.ok
    /\ nb.sklearn_estimator.entry_point = "training.py"
    /\ nb.sklearn_estimator.ok
    /\ Exists(nb.sklearn_estimator.model_data, <<"model.joblib">>)
    /\ Exists(nb.sklearn_estimator.model_data, <<"preproc.joblib">>)
    /\ nb.sklearn_estimator.model_data[<<"preproc.joblib">>]
          = s3[<<"pipeline", "preproc-pipeline.joblib">>].body

\* A raw feature row passed through the transform once.
Once(x) == scaler_transform(AllRowsScaler, <<x>>)[1]
OnceRows == {Once(InputX[i]) : i \in 1..Len(InputX)}

\* C14: every feature row the classifier is given is a raw input row passed
\* through the transform exactly once. Training fits the classifier on the
\* rows of the train table and evaluates it on the rows of the test table as
\* they are (rows transformed once by preprocessing), and the unit model_fn
\* builds hands the classifier each raw inference row transformed once.
C14_TransformedExactlyOnce ==
    /\ trn.pc \in {"dump_model", "copy", "done"} =>
          /\ Range(TrainFileX) \subseteq OnceRows
          /\ Range(trn.model.thresholds)
                \subseteq Midpoints(ColumnOf(TrainFileX, trn.model.col))
          /\ trn.X_test = TestFileX
          /\ Range(trn.X_test) \subseteq OnceRows
          /\ trn.y_pred =
                [j \in 1..Len(trn.X_test) |-> tree_apply(trn.model, trn.X_test[j])]
    /\ (out.unit # None /\ Range(out.input) \subseteq Range(InputX)) =>
          \A i \in 1..Len(out.input) :
             /\ out.seen[i] = Once(out.input[i])
             /\ out.labels[i] = tree_apply(out.unit.steps[2].est, out.seen[i])

\* Training has finished with a classifier that splits, and the unit was
\* given two raw rows for which zero, one and two passes through the
\* transform all differ.
C14_Witness ==
    /\ trn.pc = "done"
    /\ trn.model.thresholds # <<>>
    /\ out.unit # None
    /\ Len(out.input) = 2
    /\ Range(out.input) \subseteq Range(InputX)
    /\ out.seen[1] = Once(out.input[1])
    /\ Once(out.input[1]) # out.input[1]
    /\ Once(Once(out.input[1])) # Once(out.input[1])
    /\ out.labels[1] # out.labels[2]

\* C15: preprocessing writes the train table, then the test table, then the
\* transform artifact, and nothing before the transform is fitted; training
\* writes model.joblib, then preproc.joblib, and nothing before the classifier
\* is fitted and scored. So, the output directories being empty at the start,
\* in every state (also after a failure or an abort part-way) the transform
\* artifact is there only if both tables are, and preproc.joblib of the model
\* directory only if model.joblib is.
C15_LastWrittenImpliesAll ==
    /\ Exists(fs, PreprocJoblib) => Exists(fs, TrainCsv) /\ Exists(fs, TestCsv)
    /\ Exists(fs, TestCsv) => Exists(fs, TrainCsv)
    /\ Exists(fs, ModelDirPreproc) => Exists(fs, ModelJoblib)
    /\ pre.written \in {{}, {TrainCsv}, {TrainCsv, TestCsv},
                        {TrainCsv, TestCsv, PreprocJoblib}}
    /\ pre.pc \in {"write_train", "write_test", "dump"} =>
          pre.pipe.steps[1].est.fitted
    /\ pre.pc = "write_train" => pre.written = {}
    /\ trn.pc = "idle" =>
          ~Exists(fs, ModelJoblib) /\ ~Exists(fs, ModelDirPreproc)
    /\ trn.pc = "dump_model" =>
          trn.model.type = "RandomForestClassifier" /\ trn.accuracy # None

\* Preprocessing was stopped after the two tables, and the training run that
\* followed failed after model.joblib: the last artifact of each stage is
\* missing, the earlier ones are there.
C15_Witness ==
    /\ pre.pc = "failed"
    /\ pre.written = {TrainCsv, TestCsv}
    /\ Exists(fs, TrainCsv)
    /\ Exists(fs, TestCsv)
    /\ ~Exists(fs, PreprocJoblib)
    /\ trn.pc = "failed"
    /\ Exists(fs, ModelJoblib)
    /\ ~Exists(fs, ModelDirPreproc)

\* C16: with the cells run in order, the processing job finds the train/ and
\* test/ prefixes (and pipeline/) empty: the raw splits Step 0 uploaded have
\* been removed; and when the Level 2 training job starts, the objects of its
\* train, test and pipeline channels are the objects the processing job
\* uploaded and no others, so it reads none of the raw splits.
C16_NoRawSplitsInLevel2 ==
    /\ nb.processing # None =>
          /\ nb.processing.found = {}
          /\ \A k \in Keys :
                (IsPrefix(TrainPrefix, k) \/ IsPrefix(TestPrefix, k)) =>
                   (~Exists(s3, k) \/ s3[k].by = "processing")
    /\ (nb.sklearn_estimator # None
        /\ nb.sklearn_estimator.entry_point = "training.py") =>
          /\ nb.processing # None
          /\ \A c \in nb.sklearn_estimator.channels : c.by = "processing"
          /\ {c.key : c \in nb.sklearn_estimator.channels}
                = {o.key : o \in nb.processing.outputs}
          /\ {c.name : c \in nb.sklearn_estimator.channels}
                = {"train", "test", "pipeline"}

\* Both training jobs have run: Level 1 read the raw splits of Step 0, Level 2
\* tables of the processing job that differ from them.
C16_Witness ==
    /\ nb.ran = <<"fit", "rm", "processing", "fit">>
    /\ nb.sklearn_estimator.entry_point = "training.py"
    /\ nb.sklearn_estimator.ok
    /\ nb.processing.ok
    /\ s3[<<"train", "train.csv">>].by = "processing"
    /\ s3[<<"train", "train.csv">>].body # fs[RawTrainCsv]
    /\ s3[<<"test", "test.csv">>].body # fs[RawTestCsv]
    /\ s3[<<"source", "data.csv">>].by = "Step 0"

====
